---- MODULE Spec2Model ----
(***************************************************************************)
(* A model of the financial-score service (functions_NEW.py, app.py):      *)
(*   - the MongoDB read-through cache get_or_fetch, stepped statement by   *)
(*     statement so that concurrent requests interleave (Spec);            *)
(*   - the scoring engine calculate_financial_score, applied to bounded    *)
(*     tables of metric records (SpecScore);                               *)
(*   - one request through get_financial_score and run_financial_analysis, *)
(*     every collaborator answering or failing in each way it can          *)
(*     (SpecAnalysis).                                                     *)
(***************************************************************************)
EXTENDS Integers, Sequences, FiniteSets, TLC

\* ------------------------------------------------------------------ bounds
\* Clock advances the model allows.
MaxTicks == 1
\* get_or_fetch calls made in all, by all callers together.
MaxCalls == 3

\* Concurrent requests of the serving layer.
Callers == {"c1", "c2"}
\* Collections of db the concurrent callers of Spec share: the quotes, which
\* both the focal-company fetch and the peer fetch read and write.
Datasets == {"quotes"}
\* Values of key_filter's "symbol".
Symbols == {"AAPL", "MSFT"}
\* Seconds the clock can advance by in one step.
TickSteps == {3600}

\* Python values that travel as payloads: None, a list of JSON objects, a dict.
PyNone == [kind |-> "None"]
PyList(items) == [kind |-> "list", items |-> items]
PyDict(fields) == [kind |-> "dict", fields |-> fields]
\* The provider's error object, {"Error Message": "..."}.
ErrorObj == PyDict("Error Message" :> "Limit Reach")

\* What a producer (fetch_func) can yield in Spec: None, an empty list, the
\* provider's error object, or a data sequence.
Payloads == {PyNone, PyList(<<>>), ErrorObj, PyList(<<[price |-> 1]>>)}
ErrorPayloads == {ErrorObj}
EmptyPayloads == {PyNone, PyList(<<>>)}

VARIABLES
    store,      \* db: collection name -> its documents, in natural (insertion) order
    ttlIndex,   \* collection name -> the expireAfterSeconds of its createdAt index ({} = no index)
    now,        \* datetime.utcnow(), in seconds
    pc,         \* each caller's position in get_or_fetch
    frame,      \* each caller's arguments and locals of get_or_fetch
    obs,        \* what has been observed of each caller's current call
    prev,       \* what was observed of each caller's previous call (<<>>: none)
    ncalls,     \* calls begun so far
    company_data,   \* calculate_financial_score's first argument (a record, or None)
    sector_data,    \* calculate_financial_score's second argument (a list of records)
    scored,         \* what calculate_financial_score did with them
    run,        \* the analysis request: its position in run_financial_analysis and its locals
    logs        \* db.logs: the error_type of every entry log_error wrote

storeVars == <<store, ttlIndex, now>>
callerVars == <<pc, frame, obs, prev, ncalls>>
cacheVars == <<storeVars, callerVars>>
scoreVars == <<company_data, sector_data, scored>>
runVars == <<run, logs>>
vars == <<cacheVars, scoreVars, runVars>>

\* ----------------------------------------------------------- get_or_fetch
\* ttl_seconds as the callers pass it for each collection.
ttl_seconds(collection_name) ==
    CASE collection_name = "quotes" -> 3600
      [] collection_name \in {"sector_peers", "income_statement", "cashflow"} -> 172800
      [] OTHER -> 86400

\* Python truthiness of a payload: `if data:`.
\* (TruthyNotNone is the test `if data is not None:` instead.)
TruthyNotNone(data) == data.kind # "None"
Truthy(data) ==
    CASE data.kind = "None" -> FALSE
      [] data.kind = "list" -> data.items # <<>>
      [] data.kind = "dict" -> DOMAIN data.fields # {}

\* The documents of a collection that match key_filter.
Matching(coll, key_filter) ==
    SelectSeq(coll, LAMBDA d : d.key = key_filter)

\* collection.find_one(key_filter): the first matching document, or none.
\* There is no test of createdAt here.
\* (find_one_latest is a lookup that returns the newest match instead.)
find_one_latest(coll, key_filter) ==
    LET m == Matching(coll, key_filter)
    IN  IF m = <<>> THEN <<>> ELSE <<m[Len(m)]>>
find_one(coll, key_filter) ==
    LET m == Matching(coll, key_filter)
    IN  IF m = <<>> THEN <<>> ELSE <<Head(m)>>

\* {**key_filter, "data": data, "createdAt": datetime.utcnow()}
NewDoc(key_filter, data, t) == [key |-> key_filter, data |-> data, createdAt |-> t]

\* A document is past its collection's TTL.
Expired(d, ttl, t) == t - d.createdAt >= ttl

TicksOf(t) == t \div 3600

NoFrame ==
    [collection_name |-> "quotes", key_filter |-> "AAPL", ttl_seconds |-> 0,
     doc |-> <<>>, data |-> PyNone, ret |-> PyNone]
NoObs ==
    [calls |-> 0, writes |-> 0, writeFailed |-> FALSE, lookupAt |-> 0,
     fresh |-> {}, foundStale |-> FALSE, entryAt |-> -1, firstWriter |-> FALSE]

\* The database right after MongoClient(MONGO_URI): the collections are empty.
StoreEmpty(collections) ==
    /\ store = [ds \in collections |-> <<>>]
    /\ ttlIndex = [ds \in collections |-> {}]
    /\ now = 0

\* No caller of Spec is inside get_or_fetch.
CallersIdle ==
    /\ pc = [p \in Callers |-> "idle"]
    /\ frame = [p \in Callers |-> NoFrame]
    /\ obs = [p \in Callers |-> NoObs]
    /\ prev = [p \in Callers |-> <<>>]
    /\ ncalls = 0

\* No analysis request is running.
NoRun == [pc |-> "idle", n |-> 0]
RunIdle ==
    /\ run = NoRun
    /\ logs = <<>>

InitCache == StoreEmpty(Datasets) /\ CallersIdle

\* Python's None where a record (a dict) is expected; like the empty dict, it
\* is falsy.
None == [col \in {} |-> 0]

\* The scoring engine is not in use.
ScoreIdle ==
    /\ company_data = None
    /\ sector_data = <<>>
    /\ scored = [state |-> "idle"]

\* A caller enters get_or_fetch(collection_name, key_filter, fetch_func, ttl_seconds):
\*   doc = collection.find_one(key_filter); if doc: return doc['data']
Lookup(p, ds, key) ==
    /\ pc[p] = "idle"
    /\ ncalls < MaxCalls
    /\ ncalls' = ncalls + 1
    /\ LET ttl == ttl_seconds(ds)
           doc == find_one(store[ds], key)
           m == Matching(store[ds], key)
           unexpired == {i \in 1..Len(m) : ~Expired(m[i], ttl, now)}
       IN  /\ frame' = [frame EXCEPT ![p] =
                    [collection_name |-> ds, key_filter |-> key, ttl_seconds |-> ttl,
                     doc |-> doc, data |-> PyNone,
                     ret |-> IF doc # <<>> THEN doc[1].data ELSE PyNone]]
           /\ pc' = [pc EXCEPT ![p] = IF doc # <<>> THEN "done" ELSE "fetch"]
           /\ obs' = [obs EXCEPT ![p] =
                    [NoObs EXCEPT
                       !.lookupAt = now,
                       !.fresh = {m[i].data : i \in unexpired},
                       !.foundStale = (doc # <<>> /\ Expired(doc[1], ttl, now)),
                       !.entryAt = IF doc # <<>> THEN doc[1].createdAt ELSE -1,
                       !.firstWriter = (doc # <<>>)]]
    /\ UNCHANGED <<store, ttlIndex, now, prev>>
    /\ UNCHANGED <<scoreVars, runVars>>

\* data = fetch_func()
\* if data: collection.insert_one({**key_filter, "data": data, "createdAt": datetime.utcnow()})
\* The producer yields any payload, or raises (a network fault); an empty
\* payload is returned as it is; the write of a non-empty one succeeds, or
\* insert_one raises and the fault leaves get_or_fetch.
FetchAndInsert(p) ==
    /\ pc[p] = "fetch"
    /\ LET f == frame[p]
       IN  \/ \E data \in Payloads :
                /\ ~Truthy(data)
                /\ frame' = [frame EXCEPT ![p].data = data, ![p].ret = data]
                /\ obs' = [obs EXCEPT ![p].calls = @ + 1]
                /\ pc' = [pc EXCEPT ![p] = "done"]
                /\ UNCHANGED store
           \/ \E data \in Payloads :
                /\ Truthy(data)
                /\ frame' = [frame EXCEPT ![p].data = data]
                /\ store' = [store EXCEPT ![f.collection_name] =
                      Append(@, NewDoc(f.key_filter, data, now))]
                /\ obs' = [obs EXCEPT
                      ![p].calls = @ + 1,
                      ![p].writes = @ + 1,
                      ![p].entryAt = now,
                      ![p].firstWriter =
                          (Matching(store[f.collection_name], f.key_filter) = <<>>)]
                /\ pc' = [pc EXCEPT ![p] = "index"]
           \/ \E data \in Payloads :
                /\ Truthy(data)
                /\ frame' = [frame EXCEPT ![p].data = data]
                /\ obs' = [obs EXCEPT ![p].calls = @ + 1, ![p].writeFailed = TRUE]
                /\ pc' = [pc EXCEPT ![p] = "raised"]
                /\ UNCHANGED store
           \/ /\ obs' = [obs EXCEPT ![p].calls = @ + 1]
              /\ pc' = [pc EXCEPT ![p] = "raised"]
              /\ UNCHANGED <<frame, store>>
    /\ UNCHANGED <<ttlIndex, now, prev, ncalls>>
    /\ UNCHANGED <<scoreVars, runVars>>

\* collection.create_index([("createdAt", 1)], expireAfterSeconds=ttl_seconds); return data
\* The registration succeeds, or create_index raises.
CreateIndex(p) ==
    /\ pc[p] = "index"
    /\ LET f == frame[p]
       IN  \/ /\ ttlIndex' = [ttlIndex EXCEPT ![f.collection_name] = {f.ttl_seconds}]
              /\ frame' = [frame EXCEPT ![p].ret = f.data]
              /\ pc' = [pc EXCEPT ![p] = "done"]
              /\ UNCHANGED obs
           \/ /\ obs' = [obs EXCEPT ![p].writeFailed = TRUE]
              /\ pc' = [pc EXCEPT ![p] = "raised"]
              /\ UNCHANGED <<ttlIndex, frame>>
    /\ UNCHANGED <<store, now, prev, ncalls>>
    /\ UNCHANGED <<scoreVars, runVars>>

\* The call is over (it returned, or a fault left it); the caller may call again.
Return(p) ==
    /\ pc[p] \in {"done", "raised"}
    /\ prev' = [prev EXCEPT ![p] =
                  IF pc[p] = "done"
                  THEN <<[collection_name |-> frame[p].collection_name,
                          key_filter |-> frame[p].key_filter,
                          ret |-> frame[p].ret,
                          calls |-> obs[p].calls,
                          startAt |-> obs[p].lookupAt,
                          entryAt |-> IF obs[p].firstWriter THEN obs[p].entryAt ELSE -1]>>
                  ELSE <<>>]
    /\ pc' = [pc EXCEPT ![p] = "idle"]
    /\ frame' = [frame EXCEPT ![p] = NoFrame]
    /\ obs' = [obs EXCEPT ![p] = NoObs]
    /\ UNCHANGED <<store, ttlIndex, now, ncalls>>
    /\ UNCHANGED <<scoreVars, runVars>>

\* Time passes.
Tick ==
    /\ TicksOf(now) < MaxTicks
    /\ \E d \in TickSteps : now' = now + d
    /\ UNCHANGED <<store, ttlIndex, pc, frame, obs, prev, ncalls>>
    /\ UNCHANGED <<scoreVars, runVars>>

\* The store's TTL monitor: in a collection with a createdAt TTL index, it
\* deletes the documents older than expireAfterSeconds.
Sweep(ds) ==
    /\ ttlIndex[ds] # {}
    /\ \E ttl \in ttlIndex[ds] :
         /\ \E i \in 1..Len(store[ds]) : Expired(store[ds][i], ttl, now)
         /\ store' = [store EXCEPT ![ds] =
                        SelectSeq(@, LAMBDA d : ~Expired(d, ttl, now))]
    /\ UNCHANGED <<ttlIndex, now, pc, frame, obs, prev, ncalls>>
    /\ UNCHANGED <<scoreVars, runVars>>

NextCache ==
    \/ \E p \in Callers, ds \in Datasets, key \in Symbols : Lookup(p, ds, key)
    \/ \E p \in Callers : FetchAndInsert(p)
    \/ \E p \in Callers : CreateIndex(p)
    \/ \E p \in Callers : Return(p)
    \/ Tick
    \/ \E ds \in Datasets : Sweep(ds)

Init == InitCache /\ ScoreIdle /\ RunIdle

Spec == Init /\ [][NextCache]_vars

\* ------------------------------------------------- calculate_financial_score
\* Peers in sector_data.
MaxPeers == 2
\* Values a metric takes in the tables scored (unevenly spaced, so that a
\* sub-score can be 1/3 or 2/3).
MetricValues == {0, 1, 3}

\* required_columns, in the order of the code.
required_columns ==
    <<"Revenue Growth (%)", "Net Profit Margin (%)", "ROE (%)", "Debt-to-Equity",
      "Free Cash Flow (M)", "EPS", "P/E Ratio", "Current Ratio">>
Columns == {required_columns[i] : i \in 1..Len(required_columns)}
positive ==
    {"Revenue Growth (%)", "Net Profit Margin (%)", "ROE (%)",
     "Free Cash Flow (M)", "EPS", "Current Ratio"}
negative == {"Debt-to-Equity", "P/E Ratio"}

\* weights, in hundredths.
\* (weights_swapped gives EPS the weight of P/E Ratio and the reverse.)
weights_swapped ==
    [col \in Columns |->
        CASE col = "Revenue Growth (%)" -> 20
          [] col = "Net Profit Margin (%)" -> 15
          [] col = "ROE (%)" -> 20
          [] col = "Debt-to-Equity" -> 15
          [] col = "Free Cash Flow (M)" -> 10
          [] col = "EPS" -> 10
          [] col = "P/E Ratio" -> 5
          [] col = "Current Ratio" -> 5]
weights ==
    [col \in Columns |->
        CASE col = "Revenue Growth (%)" -> 20
          [] col = "Net Profit Margin (%)" -> 15
          [] col = "ROE (%)" -> 20
          [] col = "Debt-to-Equity" -> 15
          [] col = "Free Cash Flow (M)" -> 10
          [] col = "EPS" -> 5
          [] col = "P/E Ratio" -> 10
          [] col = "Current Ratio" -> 5]

\* A metric record is a dict: a column's cell is <<v>> (the number v) or <<>>
\* (Python None, which pandas reads as NaN).
\* The records the tables of SpecScore are built from: three values, each
\* shared by the columns of one group (every group mixes weights, and two of
\* them mix a higher-is-better with a lower-is-better column).
MetricRecord(a, b, c) ==
    [col \in Columns |->
        CASE col \in {"Revenue Growth (%)", "Debt-to-Equity", "EPS"} -> <<a>>
          [] col \in {"Net Profit Margin (%)", "P/E Ratio", "Current Ratio"} -> <<b>>
          [] OTHER -> <<c>>]
InputRecords == {MetricRecord(a, b, c) : a, b, c \in MetricValues}
\* Records with a null cell, as fetch_main_company_financials builds them when
\* the upstream field is null (.get returns the None that is there).
NullRecords ==
    {[MetricRecord(a, a, a) EXCEPT !["Debt-to-Equity"] = <<>>] : a \in MetricValues}
\* Records that lack one of the 8 keys.
IncompleteRecords ==
    {[col \in Columns \ {missing} |-> <<a>>] :
        a \in MetricValues, missing \in {"EPS", "Debt-to-Equity"}}
PeerLists(n) == UNION {[1..k -> InputRecords] : k \in 0..n}

\* all_data = sector_data + [company_data]; df = pd.DataFrame(all_data)
all_data(company, peers) == Append(peers, company)
\* df.columns: the keys of any row; a row without the key holds NaN there.
df_columns(df) == UNION {DOMAIN df[r] : r \in 1..Len(df)}
cell(df, r, col) == IF col \in DOMAIN df[r] THEN df[r][col] ELSE <<>>

\* df[col].min(), df[col].max(): over the rows that hold a number (NaN is
\* skipped); <<>> (NaN) when no row does.
SetMin(S) == CHOOSE x \in S : \A y \in S : x <= y
SetMax(S) == CHOOSE x \in S : \A y \in S : x >= y
Numbers(df, col, rows) == {cell(df, r, col)[1] : r \in {q \in rows : cell(df, q, col) # <<>>}}
col_min(df, col) ==
    LET S == Numbers(df, col, 1..Len(df))
    IN  IF S = {} THEN <<>> ELSE <<SetMin(S)>>
col_max(df, col) ==
    LET S == Numbers(df, col, 1..Len(df))
    IN  IF S = {} THEN <<>> ELSE <<SetMax(S)>>

\* A sub-score is the fraction <<numerator, denominator>>; NaN is <<0, 0>>.
NaN == <<0, 0>>

\* df[col + '_score'] for row r: 0.5 in every row when max_val == min_val,
\* else (value - min)/(max - min) for a positive column and
\* (max - value)/(max - min) for a negative one; NaN where the value, or the
\* minimum and maximum, are NaN (NaN == NaN is false).
\* (col_score_unguarded is col_score without the max_val == min_val branch:
\* the quotient by max - min = 0 is NaN.)
col_score_unguarded(df, col, r) ==
    LET min_val == col_min(df, col)
        max_val == col_max(df, col)
        v == cell(df, r, col)
    IN  IF min_val = <<>> \/ v = <<>> \/ max_val = min_val THEN NaN
        ELSE IF col \in positive
             THEN <<v[1] - min_val[1], max_val[1] - min_val[1]>>
             ELSE <<max_val[1] - v[1], max_val[1] - min_val[1]>>
col_score(df, col, r) ==
    LET min_val == col_min(df, col)
        max_val == col_max(df, col)
        v == cell(df, r, col)
    IN  IF min_val = <<>> THEN NaN
        ELSE IF max_val = min_val THEN <<1, 2>>
        ELSE IF v = <<>> THEN NaN
        ELSE IF col \in positive
             THEN <<v[1] - min_val[1], max_val[1] - min_val[1]>>
             ELSE <<max_val[1] - v[1], max_val[1] - min_val[1]>>

\* The product of the denominators of a row's sub-scores, from column i on.
RECURSIVE DenProduct(_, _)
DenProduct(sub, i) ==
    IF i > Len(required_columns) THEN 1
    ELSE (IF sub[required_columns[i]] = NaN THEN 1 ELSE sub[required_columns[i]][2])
           * DenProduct(sub, i + 1)

\* .mul(pd.Series(weights), axis=1).sum(axis=1): the sum over the columns
\* from i on of weight * sub-score, in units of 1/(100 * den); NaN is skipped.
RECURSIVE WeightedSum(_, _, _)
WeightedSum(sub, den, i) ==
    IF i > Len(required_columns) THEN 0
    ELSE LET col == required_columns[i]
         IN  (IF sub[col] = NaN THEN 0
              ELSE weights[col] * sub[col][1] * (den \div sub[col][2]))
               + WeightedSum(sub, den, i + 1)

\* round(x, 4) of x = n / (100 * den), in units of 0.0001: to the nearest, a
\* tie to the even one.
round4(n, den) ==
    LET q == (100 * n) \div den
        r == (100 * n) % den
    IN  IF 2 * r < den THEN q
        ELSE IF 2 * r > den THEN q + 1
        ELSE IF q % 2 = 0 THEN q ELSE q + 1

\* calculate_financial_score(company_data, sector_data): the fault raised on
\* missing data or columns, or the sub-scores of the last row and its rounded
\* weighted sum.
calculate_financial_score(company, peers) ==
    IF company = None \/ peers = <<>>
    THEN [state |-> "raised", error |-> "ValueError"]
    ELSE LET df == all_data(company, peers)
             last == Len(df)
             sub == [col \in Columns |-> col_score(df, col, last)]
             den == DenProduct(sub, 1)
         IN  IF Columns \ df_columns(df) # {}
             THEN [state |-> "raised", error |-> "ValueError"]
             ELSE [state |-> "returned", sub |-> sub,
                   rows |-> [r \in 1..Len(df) |->
                               [col \in Columns |-> col_score(df, col, r)]],
                   score |-> round4(WeightedSum(sub, den, 1), den)]

\* A company and its single peer, worse on every metric but the two it got
\* from the company (Debt-to-Equity and Current Ratio in tenths).
ScenarioCompany ==
    [col \in Columns |->
        CASE col = "Revenue Growth (%)" -> <<10>>
          [] col = "Net Profit Margin (%)" -> <<20>>
          [] col = "ROE (%)" -> <<15>>
          [] col = "Debt-to-Equity" -> <<5>>
          [] col = "Free Cash Flow (M)" -> <<100>>
          [] col = "EPS" -> <<2>>
          [] col = "P/E Ratio" -> <<15>>
          [] col = "Current Ratio" -> <<15>>]
ScenarioPeer ==
    [col \in Columns |->
        CASE col = "Revenue Growth (%)" -> <<10>>
          [] col = "Net Profit Margin (%)" -> <<10>>
          [] col = "ROE (%)" -> <<10>>
          [] col = "Debt-to-Equity" -> <<10>>
          [] col = "Free Cash Flow (M)" -> <<100>>
          [] col = "EPS" -> <<1>>
          [] col = "P/E Ratio" -> <<20>>
          [] col = "Current Ratio" -> <<10>>]

\* The arguments of the call: any record or None, any list of up to MaxPeers
\* records (the peers that reach the engine hold no null); or the scenario.
ScoreInputs ==
    \/ /\ company_data \in InputRecords \cup NullRecords \cup IncompleteRecords \cup {None}
       /\ sector_data \in PeerLists(MaxPeers)
    \/ /\ company_data = ScenarioCompany
       /\ sector_data = <<ScenarioPeer>>
    /\ scored = [state |-> "idle"]

\* The engine is applied to the table.
Score ==
    /\ scored.state = "idle"
    /\ scored' = calculate_financial_score(company_data, sector_data)
    /\ UNCHANGED <<company_data, sector_data, cacheVars, runVars>>

InitScore == InitCache /\ ScoreInputs /\ RunIdle

SpecScore == InitScore /\ [][Score]_vars

\* ------------------------------------------------- run_financial_analysis
\* Analysis requests served one after the other.
MaxRequests == 1

\* The collections of the database the pipeline reads through.
Collections ==
    {"search_results", "profiles", "sector_peers", "income_statement", "cashflow",
     "ratios", "quotes", "company_financials", "peer_financials"}

\* A symbol is the sequence of its characters.
LowerCase ==
    <<"a", "b", "c", "d", "e", "f", "g", "h", "i", "j", "k", "l", "m",
      "n", "o", "p", "q", "r", "s", "t", "u", "v", "w", "x", "y", "z">>
UpperCase ==
    <<"A", "B", "C", "D", "E", "F", "G", "H", "I", "J", "K", "L", "M",
      "N", "O", "P", "Q", "R", "S", "T", "U", "V", "W", "X", "Y", "Z">>
\* symbol.upper()
upper(symbol) ==
    [i \in 1..Len(symbol) |->
        IF \E k \in 1..Len(LowerCase) : LowerCase[k] = symbol[i]
        THEN UpperCase[CHOOSE k \in 1..Len(LowerCase) : LowerCase[k] = symbol[i]]
        ELSE symbol[i]]
\* re.match(r"^[A-Z\.]{1,6}$", s)
re_match(s) ==
    /\ Len(s) >= 1
    /\ Len(s) <= 6
    /\ \A i \in 1..Len(s) : s[i] = "." \/ \E k \in 1..Len(UpperCase) : UpperCase[k] = s[i]
\* '.' in symbol
HasDot(symbol) == \E i \in 1..Len(symbol) : symbol[i] = "."

\* The symbols a request is made for: well-formed in upper and in lower case,
\* with a character outside the pattern, too long, and empty.
InputSymbols ==
    {<<"A", "B">>, <<"a", "b">>, <<"A", "1">>, <<"A", "B", "C", "D", "E", "F", "G">>, <<>>}
\* How run_financial_analysis is entered: called by get_financial_score
\* (app.py), or called directly.
Entries == {"endpoint", "direct"}
\* peer_limit=5, the default get_financial_score leaves in place.
DefaultPeerLimit == 5

\* A field of a JSON object holds <<v>>, or <<>> for null; an absent field is
\* not in the object's domain.  dict.get(k, default):
Get(obj, k, default) == IF k \in DOMAIN obj THEN obj[k] ELSE default

\* What the upstream API answers, per endpoint.
SearchResponses(symbol) ==
    {PyList(<<>>), ErrorObj,
     PyList(<<[symbol |-> upper(symbol)]>>),
     PyList(<<[symbol |-> Append(upper(symbol), "X")]>>)}
IncomeResponses ==
    {PyList(<<>>), ErrorObj,
     PyList(<<[revenue |-> <<3>>]>>),
     PyList(<<[revenue |-> <<3>>], [revenue |-> <<1>>]>>),
     PyList(<<[revenue |-> <<3>>], [revenue |-> <<0>>]>>)}
CashflowResponses ==
    {PyList(<<>>),
     PyList(<<[freeCashFlow |-> <<2000000>>]>>),
     PyList(<<[freeCashFlow |-> <<>>]>>)}
RatiosResponses ==
    {PyList(<<>>), ErrorObj,
     PyList(<<[netProfitMarginTTM |-> <<1>>, returnOnEquityTTM |-> <<1>>,
               debtEquityRatioTTM |-> <<3>>, currentRatioTTM |-> <<1>>]>>),
     PyList(<<[netProfitMarginTTM |-> <<3>>, returnOnEquityTTM |-> <<1>>,
               debtEquityRatioTTM |-> <<1>>, currentRatioTTM |-> <<3>>]>>),
     PyList(<<[netProfitMarginTTM |-> <<0>>, returnOnEquityTTM |-> <<1>>,
               debtEquityRatioTTM |-> <<>>, currentRatioTTM |-> <<1>>]>>),
     PyList(<<[netProfitMarginTTM |-> <<0>>, returnOnEquityTTM |-> <<1>>,
               debtEquityRatioTTM |-> <<1>>, currentRatioTTM |-> <<1>>]>>)}
QuoteResponses ==
    {PyList(<<>>), ErrorObj,
     PyList(<<[eps |-> <<1>>, pe |-> <<3>>]>>),
     PyList(<<[eps |-> <<3>>, pe |-> <<1>>]>>),
     PyList(<<[eps |-> <<1>>]>>)}
ProfileResponses ==
    {PyList(<<>>), ErrorObj,
     PyList(<<[sector |-> <<"Technology">>]>>),
     PyList(<<[sector |-> <<>>]>>)}
ScreenerResponses ==
    {PyList(<<>>), ErrorObj,
     PyList(<<[symbol |-> <<"C", "D">>], [symbol |-> <<"A", "B">>]>>),
     PyList(<<[symbol |-> <<"C", ".", "L">>], [symbol |-> <<"E", "F">>]>>),
     PyList(<<[symbol |-> <<"A", "B">>]>>),
     PyList(<<[symbol |-> <<"C", ".", "L">>]>>)}

\* get_or_fetch run from lookup to return, as the pipeline's sequential calls
\* run it: every way the call can end.  fault: find_one, the producer,
\* insert_one or create_index raised; ret: the value returned otherwise.  The
\* producer answers one of responses.
get_or_fetch(st, idx, t, collection_name, key_filter, responses) ==
    LET doc == find_one(st[collection_name], key_filter)
        ttl == ttl_seconds(collection_name)
        inserted(data) ==
            [st EXCEPT ![collection_name] = Append(@, NewDoc(key_filter, data, t))]
        indexed == [idx EXCEPT ![collection_name] = {ttl}]
        end(f, r, s, i) == [fault |-> f, ret |-> r, store |-> s, ttlIndex |-> i]
    IN  {end(TRUE, PyNone, st, idx)}
        \cup (IF doc # <<>>
              THEN {end(FALSE, doc[1].data, st, idx)}
              ELSE {end(FALSE, data, st, idx) : data \in {q \in responses : ~Truthy(q)}}
                   \cup {end(FALSE, data, inserted(data), indexed) :
                            data \in {q \in responses : Truthy(q)}}
                   \cup {end(TRUE, PyNone, inserted(data), idx) :
                            data \in {q \in responses : Truthy(q)}})

\* insert_one and create_index of a get_or_fetch whose producer returned the
\* truthy data: stored and returned, or a fault before or after the insert.
insert_and_index(st, idx, t, collection_name, key_filter, data) ==
    LET ttl == ttl_seconds(collection_name)
        inserted ==
            [st EXCEPT ![collection_name] = Append(@, NewDoc(key_filter, data, t))]
        indexed == [idx EXCEPT ![collection_name] = {ttl}]
    IN  {[fault |-> TRUE, store |-> st, ttlIndex |-> idx],
         [fault |-> TRUE, store |-> inserted, ttlIndex |-> idx],
         [fault |-> FALSE, store |-> inserted, ttlIndex |-> indexed]}

\* The dict built by fetch_main_company_financials.fetch from the four
\* non-empty responses: raised when the cashflow, ratios or quote response is
\* the error object (no [0]), a field used in arithmetic is null, or the prior
\* revenue is 0.  The error object as income has len 1, so it is never indexed
\* and the growth is 0.  (The responses of the model make the quotients exact.)
main_financials(income, cashflow, ratios, quote) ==
    IF cashflow.kind = "dict" \/ ratios.kind = "dict" \/ quote.kind = "dict"
    THEN [raised |-> TRUE]
    ELSE LET two == income.kind = "list" /\ Len(income.items) > 1
             r0 == Get(income.items[1], "revenue", <<0>>)
             r1 == Get(income.items[2], "revenue", <<0>>)
             d1 == Get(income.items[2], "revenue", <<1>>)
             fcf == Get(cashflow.items[1], "freeCashFlow", <<0>>)
             npm == Get(ratios.items[1], "netProfitMarginTTM", <<0>>)
             roe == Get(ratios.items[1], "returnOnEquityTTM", <<0>>)
         IN  IF \/ two /\ (r0 = <<>> \/ r1 = <<>> \/ d1 = <<0>>)
                \/ fcf = <<>> \/ npm = <<>> \/ roe = <<>>
             THEN [raised |-> TRUE]
             ELSE [raised |-> FALSE,
                   data |->
                     [col \in Columns |->
                        CASE col = "Revenue Growth (%)" ->
                               IF two THEN <<((r0[1] - r1[1]) * 100) \div d1[1]>>
                               ELSE <<0>>
                          [] col = "Net Profit Margin (%)" -> <<npm[1] * 100>>
                          [] col = "ROE (%)" -> <<roe[1] * 100>>
                          [] col = "Debt-to-Equity" ->
                               Get(ratios.items[1], "debtEquityRatioTTM", <<0>>)
                          [] col = "Free Cash Flow (M)" -> <<fcf[1] \div 1000000>>
                          [] col = "EPS" -> Get(quote.items[1], "eps", <<0>>)
                          [] col = "P/E Ratio" -> Get(quote.items[1], "pe", <<0>>)
                          [] col = "Current Ratio" ->
                               Get(ratios.items[1], "currentRatioTTM", <<0>>)]]

\* x * 100 if x else None
TimesHundredIfTruthy(x) == IF x # <<>> /\ x[1] # 0 THEN <<x[1] * 100>> ELSE <<>>

\* peer_data built by fetch_peer_financials_batch.fetch from quote_resp[0] and
\* ratio_resp[0].
peer_financials(quote, ratio) ==
    [col \in Columns |->
        CASE col = "Net Profit Margin (%)" ->
               TimesHundredIfTruthy(Get(ratio, "netProfitMarginTTM", <<>>))
          [] col = "ROE (%)" -> TimesHundredIfTruthy(Get(ratio, "returnOnEquityTTM", <<>>))
          [] col = "Debt-to-Equity" -> Get(ratio, "debtEquityRatioTTM", <<>>)
          [] col = "EPS" -> Get(quote, "eps", <<>>)
          [] col = "P/E Ratio" -> Get(quote, "pe", <<>>)
          [] col = "Current Ratio" -> Get(ratio, "currentRatioTTM", <<>>)
          [] OTHER -> <<>>]

required_fields ==
    {"Net Profit Margin (%)", "ROE (%)", "Debt-to-Equity", "EPS", "P/E Ratio",
     "Current Ratio"}
\* missing_fields is empty
Complete(peer_data) == \A field \in required_fields : Get(peer_data, field, <<>>) # <<>>

\* [c['symbol'] for c in companies if c['symbol'] != symbol][:limit]
sector_peers(companies, symbol, limit) ==
    LET others == SelectSeq(companies, LAMBDA c : c.symbol # symbol)
    IN  [i \in 1..(IF Len(others) < limit THEN Len(others) ELSE limit) |-> others[i].symbol]

\* The peers' records left as fetch_peer_financials_batch returned them.
backfill_skipped(peer_data, company) == peer_data
\* peer['Revenue Growth (%)'] = company_data[...]; peer['Free Cash Flow (M)'] = ...
backfill(peer_data, company) ==
    [i \in 1..Len(peer_data) |->
        [peer_data[i] EXCEPT !["Revenue Growth (%)"] = company["Revenue Growth (%)"],
                             !["Free Cash Flow (M)"] = company["Free Cash Flow (M)"]]]

\* The locals of a request.  phase tells whose call of
\* fetch_main_company_financials is running: the endpoint's ("financials") or
\* that of run_financial_analysis ("analysis").  fault, logs0, noPeers and
\* scoredWith observe run_financial_analysis: a collaborator raised, the length
\* of db.logs at its entry, the peer list or the peer table came back empty,
\* and the number of peers the scoring engine was called with (-1: it was not
\* called).  kept lists the symbols whose records fetch_peer_financials_batch
\* appended.  listed tells how get_sector_peers ended: with the screener's
\* "list", with the "empty" list for want of a profile, sector or screener
\* list, or "raised" on that path.
\* valid and searched tell how is_valid_symbol ended and whether it
\* turned to search_results; built, periods and anyEmpty tell how the last
\* fetch_main_company_financials that ran its fetch ended and what its
\* responses were; rows holds the sub-scores of the table that was scored.
\* steps lists the stages the request went through, in their order, and
\* fetches the collections get_or_fetch was called on for the focal symbol's
\* profile, income, cashflow, ratios and quote.
NewRun(symbol, peer_limit, entry, n) ==
    [pc |-> IF entry = "endpoint" THEN "api" ELSE "validate", n |-> n,
     entry |-> entry, phase |-> IF entry = "endpoint" THEN "financials" ELSE "analysis",
     status |-> 0, financials |-> None,
     symbol |-> symbol, peer_limit |-> peer_limit,
     income |-> PyNone, cashflow |-> PyNone, ratios |-> PyNone, quote |-> PyNone,
     company_data |-> None, sector |-> <<>>, peers |-> <<>>, i |-> 1,
     quote_resp |-> PyNone, peer |-> None, peer_data |-> <<>>, kept |-> <<>>,
     result |-> "pending", score |-> 0,
     fault |-> FALSE, logs0 |-> Len(logs), noPeers |-> FALSE, scoredWith |-> -1,
     listed |-> "pending", valid |-> "pending", searched |-> FALSE,
     built |-> "pending", periods |-> "pending", anyEmpty |-> FALSE, rows |-> <<>>,
     steps |-> <<>>, fetches |-> {}]

\* The request enters a stage (once: a stage entered again at once, as the
\* peers' loop does, is the same stage).
Step(r, stage) ==
    [r EXCEPT !.steps = IF @ # <<>> /\ @[Len(@)] = stage THEN @ ELSE Append(@, stage)]
\* get_or_fetch is called on the collection for the focal symbol.
Fetched(r, collection_name) == [r EXCEPT !.fetches = @ \cup {collection_name}]

\* An exception on its way to the except clause around it: that of
\* get_financial_score or that of run_financial_analysis.
Raise(r) ==
    LET out == [r EXCEPT !.income = PyNone, !.cashflow = PyNone, !.ratios = PyNone,
                         !.quote = PyNone, !.quote_resp = PyNone, !.peer = None]
    IN  IF r.phase = "financials" THEN [out EXCEPT !.pc = "api_except"]
        ELSE [out EXCEPT !.pc = "except", !.fault = TRUE]
\* run_financial_analysis(ticker) is entered.
EnterAnalysis(r) ==
    [r EXCEPT !.pc = "validate", !.phase = "analysis", !.logs0 = Len(logs)]
\* fetch_main_company_financials returns data to the one who called it; the
\* locals of its fetch are gone.
GotFinancials(r, data) ==
    LET back == [r EXCEPT !.income = PyNone, !.cashflow = PyNone, !.ratios = PyNone,
                          !.quote = PyNone]
    IN  IF r.phase = "financials"
        THEN IF data = None THEN [back EXCEPT !.pc = "api_nodata"]
             ELSE EnterAnalysis([back EXCEPT !.financials = data])
        ELSE IF data = None THEN [back EXCEPT !.pc = "nodata"]
             ELSE [back EXCEPT !.company_data = data, !.pc = "profile"]
\* return None
ReturnNone(r) == [r EXCEPT !.pc = "returned", !.result = "None"]
\* continue with the next symbol of the loop, or leave the loop.
NextPeer(r) ==
    [r EXCEPT !.i = @ + 1, !.quote_resp = PyNone, !.peer = None,
              !.pc = IF r.i + 1 > Len(r.peers) THEN "peers_done" ELSE "peer"]
\* if peer_data: ... data.append(peer_data) unless a required field is None
Collect(r, data) ==
    IF Truthy(data) /\ Complete(data.fields)
    THEN NextPeer([r EXCEPT !.peer_data = Append(@, data.fields),
                            !.kept = Append(@, r.peers[r.i])])
    ELSE NextPeer(r)

\* log_error(error_type, ...): db.logs.insert_one writes the entry and the
\* caller goes on as ok, or raises.
log_error(error_type, ok, raised) ==
    \/ /\ logs' = Append(logs, error_type)
       /\ run' = ok
    \/ /\ logs' = logs
       /\ run' = raised

RunStart(symbol, peer_limit, entry) ==
    /\ run.pc = "idle"
    /\ run.n < MaxRequests
    /\ run' = NewRun(symbol, peer_limit, entry, run.n + 1)
    /\ UNCHANGED <<logs, cacheVars, scoreVars>>

\* get_financial_score: if not ticker: log_error("api", ...); 400.  This
\* log_error is outside the try.
ApiTicker ==
    /\ run.pc = "api"
    /\ IF run.symbol = <<>>
       THEN log_error("api", [run EXCEPT !.pc = "responded", !.status = 400],
                      [run EXCEPT !.pc = "crashed"])
       ELSE /\ run' = [run EXCEPT !.pc = "company"]
            /\ UNCHANGED logs
    /\ UNCHANGED <<cacheVars, scoreVars>>

\* is_valid_symbol(symbol)
IsValidSymbol ==
    /\ run.pc = "validate"
    /\ IF ~re_match(upper(run.symbol))
       THEN /\ log_error("validation",
                         [Step(run, "validate") EXCEPT !.pc = "invalid", !.valid = "false"],
                         [Raise(Step(run, "validate")) EXCEPT !.valid = "raised"])
            /\ UNCHANGED storeVars
       ELSE /\ \E o \in get_or_fetch(store, ttlIndex, now, "search_results", run.symbol,
                                     SearchResponses(run.symbol)) :
                 /\ store' = o.store
                 /\ ttlIndex' = o.ttlIndex
                 /\ run' = IF o.fault \/ o.ret.kind = "dict"
                           THEN [Raise(Step(run, "validate")) EXCEPT !.valid = "raised", !.searched = TRUE]
                           ELSE IF /\ Truthy(o.ret)
                                   /\ upper(o.ret.items[1].symbol) = upper(run.symbol)
                                THEN [Step(run, "validate") EXCEPT !.pc = "company", !.valid = "true",
                                                 !.searched = TRUE]
                                ELSE [Step(run, "validate") EXCEPT !.pc = "invalid", !.valid = "false",
                                                 !.searched = TRUE]
            /\ UNCHANGED <<now, logs>>
    /\ UNCHANGED <<callerVars, scoreVars>>

\* if not is_valid_symbol(symbol): log_error("validation", ...); return None
Invalid ==
    /\ run.pc = "invalid"
    /\ log_error("validation", ReturnNone(run), Raise(run))
    /\ UNCHANGED <<cacheVars, scoreVars>>

\* fetch_main_company_financials: the lookup of get_or_fetch("company_financials")
CompanyLookup ==
    /\ run.pc = "company"
    /\ LET doc == find_one(store["company_financials"], run.symbol)
       IN  \/ run' = Raise(Step(run, "company"))
           \/ /\ doc # <<>>
              /\ run' = GotFinancials(Step(run, "company"), doc[1].data.fields)
           \/ /\ doc = <<>>
              /\ run' = [Step(run, "company") EXCEPT !.pc = "income"]
    /\ UNCHANGED <<logs, cacheVars, scoreVars>>

\* One of the four get_or_fetch calls of fetch_main_company_financials.fetch.
FetchMain(at, collection_name, responses, next) ==
    /\ run.pc = at
    /\ \E o \in get_or_fetch(store, ttlIndex, now, collection_name, run.symbol, responses) :
          /\ store' = o.store
          /\ ttlIndex' = o.ttlIndex
          /\ run' = IF o.fault THEN Raise(Fetched(run, collection_name))
                    ELSE [Fetched(run, collection_name) EXCEPT ![at] = o.ret, !.pc = next]
    /\ UNCHANGED <<now, logs, callerVars, scoreVars>>
FetchIncome == FetchMain("income", "income_statement", IncomeResponses, "cashflow")
FetchCashflow == FetchMain("cashflow", "cashflow", CashflowResponses, "ratios")
FetchRatios == FetchMain("ratios", "ratios", RatiosResponses, "quote")
FetchQuote == FetchMain("quote", "quotes", QuoteResponses, "build")

\* What the income response offers the growth expression of lines 120-122:
\* fewer than two periods (the error object has len 1), two periods whose
\* prior revenue is 0 (the first being a number), or two other periods.
IncomePeriods(income) ==
    IF ~(income.kind = "list" /\ Len(income.items) > 1) THEN "fewer than 2"
    ELSE IF /\ Get(income.items[1], "revenue", <<0>>) # <<>>
            /\ Get(income.items[2], "revenue", <<0>>) = <<0>>
         THEN "prior revenue 0"
         ELSE "2"
\* The call of fetch_main_company_financials that ends in r, recorded with
\* what its four responses (those of the frame at) were.
Built(r, at, outcome) ==
    [r EXCEPT !.built = outcome,
              !.periods = IncomePeriods(at.income),
              !.anyEmpty = \/ ~Truthy(at.income) \/ ~Truthy(at.cashflow)
                           \/ ~Truthy(at.ratios) \/ ~Truthy(at.quote)]

\* CompanyBuild with a get_or_fetch that stores whatever fetch returned, the
\* None of an empty response included.
CompanyBuild_storing_none ==
    /\ run.pc = "build"
    /\ IF ~Truthy(run.income) \/ ~Truthy(run.cashflow) \/ ~Truthy(run.ratios)
          \/ ~Truthy(run.quote)
       THEN /\ run' = Built(GotFinancials(run, None), run, "None")
            /\ store' = [store EXCEPT !["company_financials"] =
                             Append(@, NewDoc(run.symbol, PyNone, now))]
            /\ UNCHANGED <<ttlIndex, now>>
       ELSE LET m == main_financials(run.income, run.cashflow, run.ratios, run.quote)
            IN  /\ ~m.raised
                /\ store' = [store EXCEPT !["company_financials"] =
                                 Append(@, NewDoc(run.symbol, PyDict(m.data), now))]
                /\ run' = Built(GotFinancials(run, m.data), run, "dict")
                /\ UNCHANGED <<ttlIndex, now>>
    /\ UNCHANGED <<logs, callerVars, scoreVars>>

\* The rest of fetch and of the get_or_fetch around it: None when a response
\* is empty (nothing stored), else the dict, stored and returned.
CompanyBuild ==
    /\ run.pc = "build"
    /\ IF ~Truthy(run.income) \/ ~Truthy(run.cashflow) \/ ~Truthy(run.ratios)
          \/ ~Truthy(run.quote)
       THEN /\ run' = Built(GotFinancials(run, None), run, "None")
            /\ UNCHANGED storeVars
       ELSE LET m == main_financials(run.income, run.cashflow, run.ratios, run.quote)
            IN  IF m.raised
                THEN /\ run' = Built(Raise(run), run,
                                     IF IncomePeriods(run.income) = "prior revenue 0"
                                     THEN "ZeroDivisionError" ELSE "raised")
                     /\ UNCHANGED storeVars
                ELSE /\ \E w \in insert_and_index(store, ttlIndex, now, "company_financials",
                                                  run.symbol, PyDict(m.data)) :
                          /\ store' = w.store
                          /\ ttlIndex' = w.ttlIndex
                          /\ run' = IF w.fault THEN Built(Raise(run), run, "store fault")
                                    ELSE Built(GotFinancials(run, m.data), run, "dict")
                     /\ UNCHANGED now
    /\ UNCHANGED <<logs, callerVars, scoreVars>>

\* if not company_data: log_error("data_fetch", ...); return None
NoData ==
    /\ run.pc = "nodata"
    /\ log_error("data_fetch", ReturnNone(run), Raise(run))
    /\ UNCHANGED <<cacheVars, scoreVars>>

\* get_sector_peers: the profile and its sector.
FetchProfile ==
    /\ run.pc = "profile"
    /\ \E o \in get_or_fetch(store, ttlIndex, now, "profiles", run.symbol, ProfileResponses) :
          /\ store' = o.store
          /\ ttlIndex' = o.ttlIndex
          /\ run' = IF o.fault \/ o.ret.kind = "dict" THEN Raise(Fetched(Step(run, "peers"), "profiles"))
                    ELSE IF ~Truthy(o.ret) THEN [Fetched(Step(run, "peers"), "profiles") EXCEPT !.pc = "nolist"]
                    ELSE LET sector == Get(o.ret.items[1], "sector", <<>>)
                         IN  IF sector # <<>>
                             THEN [Fetched(Step(run, "peers"), "profiles") EXCEPT !.sector = sector, !.pc = "screener"]
                             ELSE [Fetched(Step(run, "peers"), "profiles") EXCEPT !.pc = "nolist"]
    /\ UNCHANGED <<now, logs, callerVars, scoreVars>>

\* get_sector_peers: the screener list of the sector, without the symbol, cut
\* at limit.
FetchScreener ==
    /\ run.pc = "screener"
    /\ \E o \in get_or_fetch(store, ttlIndex, now, "sector_peers", run.sector,
                             ScreenerResponses) :
          /\ store' = o.store
          /\ ttlIndex' = o.ttlIndex
          /\ run' = IF o.fault \/ o.ret.kind = "dict" THEN Raise(run)
                    ELSE IF ~Truthy(o.ret) THEN [run EXCEPT !.pc = "nolist"]
                    ELSE LET peers == sector_peers(o.ret.items, run.symbol, run.peer_limit)
                         IN  [run EXCEPT !.peers = peers, !.listed = "list",
                                         !.pc = IF peers = <<>> THEN "nopeers" ELSE "peer"]
    /\ UNCHANGED <<now, logs, callerVars, scoreVars>>

\* get_sector_peers without a profile, a sector or a list: log_error and
\* return [].
NoList ==
    /\ run.pc = "nolist"
    /\ log_error("data_fetch", [run EXCEPT !.pc = "nopeers", !.listed = "empty"],
                 Raise([run EXCEPT !.listed = "raised"]))
    /\ UNCHANGED <<cacheVars, scoreVars>>

\* if not peers: log_error("data_fetch", ...); return None
NoPeers ==
    /\ run.pc = "nopeers"
    /\ log_error("data_fetch", ReturnNone([run EXCEPT !.noPeers = TRUE]),
                 Raise([run EXCEPT !.noPeers = TRUE]))
    /\ UNCHANGED <<cacheVars, scoreVars>>

\* fetch_peer_financials_batch, for the symbol at hand: skipped when it has a
\* dot, else the lookup of get_or_fetch("peer_financials").
PeerLookup ==
    /\ run.pc = "peer"
    /\ LET symbol == run.peers[run.i]
           doc == find_one(store["peer_financials"], symbol)
       IN  IF HasDot(symbol)
           THEN run' = NextPeer(Step(run, "peer_metrics"))
           ELSE \/ run' = Raise(Step(run, "peer_metrics"))
                \/ /\ doc # <<>>
                   /\ run' = Collect(Step(run, "peer_metrics"), doc[1].data)
                \/ /\ doc = <<>>
                   /\ run' = [Step(run, "peer_metrics") EXCEPT !.pc = "peer_quote"]
    /\ UNCHANGED <<logs, cacheVars, scoreVars>>

\* fetch: the quote.  A fault is caught inside fetch, which then returns None
\* like it does for the error object; nothing is logged.
PeerQuote ==
    /\ run.pc = "peer_quote"
    /\ \E o \in get_or_fetch(store, ttlIndex, now, "quotes", run.peers[run.i],
                             QuoteResponses) :
          /\ store' = o.store
          /\ ttlIndex' = o.ttlIndex
          /\ run' = IF o.fault THEN NextPeer([run EXCEPT !.fault = TRUE])
                    ELSE IF o.ret.kind = "dict" THEN NextPeer(run)
                    ELSE [run EXCEPT !.quote_resp = o.ret, !.pc = "peer_ratios"]
    /\ UNCHANGED <<now, logs, callerVars, scoreVars>>

\* fetch: the ratios, then None when either response is empty, else peer_data.
PeerRatios ==
    /\ run.pc = "peer_ratios"
    /\ \E o \in get_or_fetch(store, ttlIndex, now, "ratios", run.peers[run.i],
                             RatiosResponses) :
          /\ store' = o.store
          /\ ttlIndex' = o.ttlIndex
          /\ run' = IF o.fault THEN NextPeer([run EXCEPT !.fault = TRUE])
                    ELSE IF o.ret.kind = "dict" \/ ~Truthy(run.quote_resp) \/ ~Truthy(o.ret)
                         THEN NextPeer(run)
                    ELSE [run EXCEPT !.peer = peer_financials(run.quote_resp.items[1],
                                                              o.ret.items[1]),
                                     !.pc = "peer_insert"]
    /\ UNCHANGED <<now, logs, callerVars, scoreVars>>

\* The insert_one and create_index of get_or_fetch("peer_financials"), outside
\* the try of fetch, and the required-fields filter.
PeerInsert ==
    /\ run.pc = "peer_insert"
    /\ \E w \in insert_and_index(store, ttlIndex, now, "peer_financials",
                                 run.peers[run.i], PyDict(run.peer)) :
          /\ store' = w.store
          /\ ttlIndex' = w.ttlIndex
          /\ run' = IF w.fault THEN Raise(run) ELSE Collect(run, PyDict(run.peer))
    /\ UNCHANGED <<now, logs, callerVars, scoreVars>>

\* if not peer_data: log_error("data_fetch", ...); return None
PeersDone ==
    /\ run.pc = "peers_done"
    /\ IF run.peer_data = <<>>
       THEN log_error("data_fetch", ReturnNone([run EXCEPT !.noPeers = TRUE]),
                      Raise([run EXCEPT !.noPeers = TRUE]))
       ELSE /\ run' = [run EXCEPT !.pc = "score"]
            /\ UNCHANGED logs
    /\ UNCHANGED <<cacheVars, scoreVars>>

\* CalculateScore on a store that hands out its own documents: the backfill
\* writes the company's two values through to the kept peers' entries.
CalculateScore_writing_through ==
    /\ run.pc = "score"
    /\ LET table == backfill(run.peer_data, run.company_data)
           res == calculate_financial_score(run.company_data, table)
           called == [run EXCEPT !.peer_data = table, !.scoredWith = Len(table)]
       IN  /\ res.state = "returned"
           /\ run' = [called EXCEPT !.pc = "returned", !.result = "score",
                                    !.score = res.score, !.rows = res.rows]
           /\ store' = [store EXCEPT !["peer_financials"] =
                  [i \in 1..Len(@) |->
                     IF \E k \in 1..Len(run.kept) : run.kept[k] = @[i].key
                     THEN [@[i] EXCEPT !.data =
                             PyDict(backfill(<<@.fields>>, run.company_data)[1])]
                     ELSE @[i]]]
    /\ UNCHANGED <<ttlIndex, now, logs, callerVars, scoreVars>>

\* The backfill, then calculate_financial_score, whose own except clause logs
\* and raises again.
CalculateScore ==
    /\ run.pc = "score"
    /\ LET table == backfill(run.peer_data, run.company_data)
           res == calculate_financial_score(run.company_data, table)
           called == [Step(Step(run, "backfill"), "score") EXCEPT !.peer_data = table, !.scoredWith = Len(table)]
       IN  IF res.state = "raised"
           THEN log_error("calculation", Raise(called), Raise(called))
           ELSE /\ run' = [called EXCEPT !.pc = "returned", !.result = "score",
                                         !.score = res.score, !.rows = res.rows]
                /\ UNCHANGED logs
    /\ UNCHANGED <<cacheVars, scoreVars>>

\* except Exception: log_error("analysis", ...); return None.  When log_error
\* raises here the exception leaves run_financial_analysis.
Except ==
    /\ run.pc = "except"
    /\ \/ /\ logs' = Append(logs, "analysis")
          /\ run' = ReturnNone(run)
       \/ /\ logs' = logs
          /\ run' = [run EXCEPT !.pc = "propagated", !.result = "fault"]
    /\ UNCHANGED <<cacheVars, scoreVars>>

\* get_financial_score: if financials is None: log_error("api", ...); 404
ApiNoData ==
    /\ run.pc = "api_nodata"
    /\ log_error("api", [run EXCEPT !.pc = "responded", !.status = 404], Raise(run))
    /\ UNCHANGED <<cacheVars, scoreVars>>

\* get_financial_score once run_financial_analysis has ended: 404 for None,
\* 200 for a score, the except clause for an exception.
ApiScore ==
    /\ run.pc \in {"returned", "propagated"}
    /\ run.entry = "endpoint"
    /\ LET back == [run EXCEPT !.phase = "financials"]
       IN  IF run.pc = "propagated"
           THEN /\ run' = Raise(back)
                /\ UNCHANGED logs
           ELSE IF run.result = "None"
           THEN log_error("api", [back EXCEPT !.pc = "responded", !.status = 404],
                          Raise(back))
           ELSE /\ run' = [back EXCEPT !.pc = "responded", !.status = 200]
                /\ UNCHANGED logs
    /\ UNCHANGED <<cacheVars, scoreVars>>

\* get_financial_score: except Exception: log_error("api", ...); 500.  When
\* log_error raises here the exception leaves the handler.
ApiExcept ==
    /\ run.pc = "api_except"
    /\ log_error("api", [run EXCEPT !.pc = "responded", !.status = 500],
                 [run EXCEPT !.pc = "crashed"])
    /\ UNCHANGED <<cacheVars, scoreVars>>

\* The request is over; the next one may start.
RunReturn ==
    /\ \/ run.pc \in {"returned", "propagated"} /\ run.entry = "direct"
       \/ run.pc \in {"responded", "crashed"}
    /\ run' = [pc |-> "idle", n |-> run.n]
    /\ UNCHANGED <<logs, cacheVars, scoreVars>>

NextAnalysis ==
    \/ \E symbol \in InputSymbols, peer_limit \in 1..MaxPeers :
          RunStart(symbol, peer_limit, "direct")
    \/ \E symbol \in InputSymbols : RunStart(symbol, DefaultPeerLimit, "endpoint")
    \/ ApiTicker
    \/ IsValidSymbol
    \/ Invalid
    \/ CompanyLookup
    \/ FetchIncome
    \/ FetchCashflow
    \/ FetchRatios
    \/ FetchQuote
    \/ CompanyBuild
    \/ NoData
    \/ FetchProfile
    \/ FetchScreener
    \/ NoList
    \/ NoPeers
    \/ PeerLookup
    \/ PeerQuote
    \/ PeerRatios
    \/ PeerInsert
    \/ PeersDone
    \/ CalculateScore
    \/ Except
    \/ ApiNoData
    \/ ApiScore
    \/ ApiExcept
    \/ RunReturn

InitAnalysis == StoreEmpty(Collections) /\ CallersIdle /\ ScoreIdle /\ RunIdle

SpecAnalysis == InitAnalysis /\ [][NextAnalysis]_vars

\* ---------------------------------------------- get_financial_score, in time
\* One request to the endpoint while the clock runs and the store's TTL
\* monitor makes its passes.
MaxDays == 1
SecondsPerDay == 86400

\* A day goes by.
DayPasses ==
    /\ now < MaxDays * SecondsPerDay
    /\ now' = now + SecondsPerDay
    /\ UNCHANGED <<store, ttlIndex, callerVars, scoreVars, runVars>>

\* A pass of the TTL monitor: in every collection with a createdAt TTL index
\* the documents older than expireAfterSeconds are deleted.
SweepAll ==
    /\ \E ds \in Collections : \E ttl \in ttlIndex[ds] :
          \E i \in 1..Len(store[ds]) : Expired(store[ds][i], ttl, now)
    /\ store' = [ds \in Collections |->
                    SelectSeq(store[ds],
                              LAMBDA d : \A ttl \in ttlIndex[ds] : ~Expired(d, ttl, now))]
    /\ UNCHANGED <<ttlIndex, now, callerVars, scoreVars, runVars>>

NextEndpoint ==
    \/ RunStart(<<"A", "B">>, DefaultPeerLimit, "endpoint")
    \/ ApiTicker
    \/ IsValidSymbol
    \/ Invalid
    \/ CompanyLookup
    \/ FetchIncome
    \/ FetchCashflow
    \/ FetchRatios
    \/ FetchQuote
    \/ CompanyBuild
    \/ NoData
    \/ FetchProfile
    \/ FetchScreener
    \/ NoList
    \/ NoPeers
    \/ PeerLookup
    \/ PeerQuote
    \/ PeerRatios
    \/ PeerInsert
    \/ PeersDone
    \/ CalculateScore
    \/ Except
    \/ ApiNoData
    \/ ApiScore
    \/ ApiExcept
    \/ RunReturn
    \/ DayPasses
    \/ SweepAll

InitEndpoint == StoreEmpty(Collections) /\ CallersIdle /\ ScoreIdle /\ RunIdle

SpecEndpoint == InitEndpoint /\ [][NextEndpoint]_vars

\* ------------------------------------------------------- is_valid_symbol
\* Calls of is_valid_symbol made one after another on one store, each with
\* the answer the search endpoint gives at that moment.
MaxValidCalls == 3

\* is_valid_symbol(symbol) as one call on the store st: what it returns
\* ("true", "false") or "raised", the data get_or_fetch handed it, and the
\* store it leaves.  A symbol of the wrong format is logged and refused before
\* any lookup; data[0] of the error object (a dict) is a KeyError.
is_valid_symbol(st, idx, t, symbol, upstream) ==
    LET end(r, f, d, s, i, l) ==
            [result |-> r, fault |-> f, data |-> d, store |-> s, ttlIndex |-> i, logged |-> l]
    IN  IF ~re_match(upper(symbol))
        THEN {end("false", FALSE, PyNone, st, idx, TRUE),
              end("raised", TRUE, PyNone, st, idx, FALSE)}
        ELSE {end(IF o.fault \/ o.ret.kind = "dict" THEN "raised"
                  ELSE IF /\ Truthy(o.ret)
                          /\ upper(o.ret.items[1].symbol) = upper(symbol)
                       THEN "true"
                       ELSE "false",
                  o.fault, o.ret, o.store, o.ttlIndex, FALSE) :
                 o \in get_or_fetch(st, idx, t, "search_results", symbol, {upstream})}

\* One call of is_valid_symbol, with the search endpoint answering upstream.
ValidCall(symbol, upstream) ==
    /\ run.pc = "valid"
    /\ Len(run.calls) < MaxValidCalls
    /\ \E o \in is_valid_symbol(store, ttlIndex, now, symbol, upstream) :
          /\ store' = o.store
          /\ ttlIndex' = o.ttlIndex
          /\ logs' = IF o.logged THEN Append(logs, "validation") ELSE logs
          /\ run' = [run EXCEPT !.calls =
                         Append(@, [symbol |-> symbol, upstream |-> upstream,
                                    result |-> o.result, fault |-> o.fault,
                                    data |-> o.data])]
    /\ UNCHANGED <<now, callerVars, scoreVars>>

NextValid ==
    \E symbol \in InputSymbols : \E upstream \in SearchResponses(symbol) :
        ValidCall(symbol, upstream)

InitValid ==
    /\ StoreEmpty(Collections) /\ CallersIdle /\ ScoreIdle
    /\ run = [pc |-> "valid", calls |-> <<>>]
    /\ logs = <<>>

SpecValid == InitValid /\ [][NextValid]_vars

\* ------------------------------------------------------------ the cache's claims
\* The caller's call has returned (no fault left it).
Returned(p) == pc[p] = "done"
\* The caller's call missed: find_one found no document.
Missed(p) == pc[p] # "idle" /\ frame[p].doc = <<>>
\* The caller's call is the second of two calls for the same (dataset, key),
\* the first of which returned.
SecondOfPair(p) ==
    /\ pc[p] # "idle"
    /\ prev[p] # <<>>
    /\ prev[p][1].collection_name = frame[p].collection_name
    /\ prev[p][1].key_filter = frame[p].key_filter

\* C1: a get_or_fetch that is called while the store holds an unexpired entry
\* for its (dataset, key) returns the payload of an unexpired entry and does
\* not invoke the producer.
C1_FreshEntryServedWithoutFetch ==
    \A p \in Callers :
        (Returned(p) /\ obs[p].fresh # {}) =>
            /\ obs[p].calls = 0
            /\ frame[p].ret \in obs[p].fresh

\* C2: a get_or_fetch that misses and whose producer yields an empty or null
\* payload has invoked the producer exactly once, returns that payload and has
\* written nothing; and the caller's next call for the same (dataset, key),
\* finding no entry, invokes the producer again.
C2_EmptyFetchNotCached ==
    \A p \in Callers :
        /\ (Returned(p) /\ Missed(p) /\ frame[p].data \in EmptyPayloads) =>
              /\ obs[p].calls = 1
              /\ frame[p].ret = frame[p].data
              /\ obs[p].writes = 0
        /\ (Returned(p) /\ SecondOfPair(p) /\ Missed(p)
              /\ prev[p][1].calls = 1 /\ prev[p][1].ret \in EmptyPayloads) =>
              obs[p].calls = 1
C2_Witness ==
    \E p \in Callers :
        /\ Returned(p) /\ SecondOfPair(p) /\ Missed(p)
        /\ prev[p][1].calls = 1 /\ prev[p][1].ret = PyList(<<>>)
        /\ frame[p].data = PyNone /\ frame[p].ret = PyNone
        /\ obs[p].calls = 1
        /\ Matching(store[frame[p].collection_name], frame[p].key_filter) = <<>>

\* C3, as the spec states it: two calls for the same (dataset, key), the
\* second made within the dataset's TTL of the first, invoke the producer at
\* most once in all, and the second returns what the first returned.
C3_TwoCallsFetchOnce ==
    \A p \in Callers :
        (Returned(p) /\ SecondOfPair(p)
           /\ obs[p].lookupAt - prev[p][1].startAt < frame[p].ttl_seconds) =>
            /\ prev[p][1].calls + obs[p].calls <= 1
            /\ frame[p].ret = prev[p][1].ret

\* C3, amended: when the first call returned the payload of an entry (one it
\* found, or one it fetched and inserted while the key had no entry), and the
\* second call, begun after the first returned, looks up while that entry is
\* within its TTL, the second call does not invoke the producer and returns
\* the same payload; the two calls invoke the producer at most once in all.
C3_SecondCallHitsStoredEntry ==
    \A p \in Callers :
        (SecondOfPair(p) /\ prev[p][1].entryAt >= 0
           /\ obs[p].lookupAt - prev[p][1].entryAt < frame[p].ttl_seconds) =>
            /\ Returned(p)
            /\ obs[p].calls = 0
            /\ prev[p][1].calls + obs[p].calls <= 1
            /\ frame[p].ret = prev[p][1].ret
C3_Witness ==
    \E p \in Callers :
        /\ Returned(p) /\ SecondOfPair(p)
        /\ prev[p][1].calls = 1 /\ prev[p][1].entryAt >= 0
        /\ obs[p].lookupAt - prev[p][1].entryAt < frame[p].ttl_seconds
        /\ obs[p].calls = 0
        /\ frame[p].ret = prev[p][1].ret
        /\ Len(store[frame[p].collection_name]) >= 2

\* C4: when the producer yielded a non-empty payload and the store write
\* (insert_one or create_index) failed, the call still returns the payload.
C4_WriteFailureStillReturns ==
    \A p \in Callers :
        obs[p].writeFailed =>
            (pc[p] = "done" /\ frame[p].ret = frame[p].data)

\* C5: no cache entry of any dataset holds an upstream error payload.
C5_NoErrorPayloadCached ==
    \A ds \in Datasets : \A i \in 1..Len(store[ds]) :
        store[ds][i].data \notin ErrorPayloads

\* C6: the store holds at most one entry per (dataset, filter key).
C6_AtMostOneEntryPerKey ==
    \A ds \in Datasets, key \in Symbols : Len(Matching(store[ds], key)) <= 1

\* C7: a get_or_fetch that finds an entry older than the TTL still in the store
\* invokes the producer and does not return the stale payload.
C7_StaleEntryTreatedAsAbsent ==
    \A p \in Callers :
        (Returned(p) /\ obs[p].foundStale) =>
            /\ obs[p].calls >= 1
            /\ frame[p].doc = <<>>

\* ------------------------------------------------------ the analysis's claims

Ended == run.pc \in {"returned", "propagated"}

\* C8: every run of run_financial_analysis ends by returning a score or null,
\* never by letting a fault out, and when a collaborator failed during the run
\* a log entry was written.
C8_FaultsBecomeNullAndLog ==
    Ended =>
        /\ run.pc = "returned"
        /\ run.result \in {"score", "None"}
        /\ run.fault => Len(logs) > run.logs0

\* C9: a run whose peer list is empty, or whose peer table is empty after
\* filtering, returns null, and the scoring engine is never called with an
\* empty peer set.
C9_NoPeersReturnsNull ==
    /\ run.pc # "idle" => run.scoredWith # 0
    /\ (Ended /\ run.noPeers) => (run.pc = "returned" /\ run.result = "None")

\* What the upstream supplied for a key of a collection, as the store holds
\* it after the fetch (an empty response is not stored).
Stored(collection_name, key_filter) ==
    LET doc == find_one(store[collection_name], key_filter)
    IN  IF doc = <<>> THEN PyNone ELSE doc[1].data
\* The response is a non-empty list whose first item holds a number in each
\* of the fields.
Supplies(resp, fields) ==
    /\ resp.kind = "list"
    /\ resp.items # <<>>
    /\ \A f \in fields : Get(resp.items[1], f, <<>>) # <<>>
\* The peer has no dot in its symbol and the upstream supplied its six
\* metrics.
Supplied(symbol) ==
    /\ ~HasDot(symbol)
    /\ Supplies(Stored("quotes", symbol), {"eps", "pe"})
    /\ Supplies(Stored("ratios", symbol),
                {"netProfitMarginTTM", "returnOnEquityTTM", "debtEquityRatioTTM",
                 "currentRatioTTM"})

\* C13: with no collaborator failing, fetch_peer_financials_batch returns, in
\* input order, exactly the peers without a dot for which the upstream
\* supplied a quote, ratios and a number (any number) in each of the six
\* metrics.
C13_PeersKeptExactly ==
    (run.pc = "peers_done" /\ ~run.fault) =>
        run.kept = SelectSeq(run.peers, LAMBDA symbol : Supplied(symbol))

\* The symbols of the screener list of the run's sector, as the upstream
\* returned them.
Screened ==
    LET items == Stored("sector_peers", run.sector).items
    IN  [k \in 1..Len(items) |-> items[k].symbol]

\* C14: get_sector_peers returns a list without the input symbol, of at most
\* limit entries, in the order of the upstream screener, and it returns the
\* empty list when the profile, the sector or the screener list is absent.
C14_PeersWithoutSelfInOrder ==
    run.pc # "idle" =>
        /\ run.listed # "raised"
        /\ run.listed = "empty" => run.peers = <<>>
        /\ run.listed = "list" =>
              /\ \A i \in 1..Len(run.peers) : run.peers[i] # run.symbol
              /\ Len(run.peers) <= run.peer_limit
              /\ \E at \in [1..Len(run.peers) -> 1..Len(Screened)] :
                    /\ \A i \in 1..Len(run.peers) : Screened[at[i]] = run.peers[i]
                    /\ \A i, j \in 1..Len(run.peers) : i < j => at[i] < at[j]

\* C15: for every symbol whose uppercased form is not one to six capital
\* letters, possibly followed by a dot and one or two capital letters,
\* is_valid_symbol returns false, and during the call no search_results
\* lookup and no producer call is made.
C15_BadFormatRejectedWithoutLookup ==
    (run.pc # "idle" /\ run.valid # "pending" /\ ~re_match(upper(run.symbol))) =>
        /\ run.valid = "false"
        /\ ~run.searched
        /\ store["search_results"] = <<>>

\* The part of C15 the code keeps: a symbol of the wrong format is never
\* accepted and never looked up, whether the call returns or raises.
C15_BadFormatNeverLookedUp ==
    (run.pc # "idle" /\ run.valid # "pending" /\ ~re_match(upper(run.symbol))) =>
        /\ run.valid # "true"
        /\ ~run.searched
        /\ store["search_results"] = <<>>

\* The search data is a list whose first candidate is the symbol, ignoring case.
FirstCandidateIs(data, symbol) ==
    /\ data.kind = "list"
    /\ Len(data.items) > 0
    /\ upper(data.items[1].symbol) = upper(symbol)

\* Two calls made one after the other, neither hit by a store fault, on the
\* two spellings of one well-formed symbol, the search endpoint answering
\* both alike.
SamePair(a, b) ==
    /\ re_match(upper(a.symbol))
    /\ a.symbol # b.symbol
    /\ b.symbol = upper(a.symbol) \/ a.symbol = upper(b.symbol)
    /\ a.upstream = b.upstream
    /\ ~a.fault /\ ~b.fault

\* C16: for a symbol of the right format is_valid_symbol returns true
\* exactly when the search data is non-empty and its first candidate is the
\* symbol ignoring case; so with the same upstream, in any reachable cache
\* state, is_valid_symbol(s) and is_valid_symbol(uppercase(s)) return the
\* same result.
C16_BothSpellingsValidateAlike ==
    run.pc = "valid" =>
        /\ \A i \in 1..Len(run.calls) :
              (re_match(upper(run.calls[i].symbol)) /\ ~run.calls[i].fault) =>
                  (run.calls[i].result = "true"
                      <=> FirstCandidateIs(run.calls[i].data, run.calls[i].symbol))
        /\ \A i \in 1..(Len(run.calls) - 1) :
              SamePair(run.calls[i], run.calls[i + 1]) =>
                  run.calls[i].result = run.calls[i + 1].result

\* The first half of C16, which the code keeps.
C16_TrueExactlyOnFirstCandidate ==
    run.pc = "valid" =>
        \A i \in 1..Len(run.calls) :
            (re_match(upper(run.calls[i].symbol)) /\ ~run.calls[i].fault) =>
                (run.calls[i].result = "true"
                    <=> FirstCandidateIs(run.calls[i].data, run.calls[i].symbol))

\* The Revenue Growth (%) of the record fetch_main_company_financials built.
Growth ==
    IF run.phase = "financials" \/ run.entry = "endpoint"
    THEN run.financials["Revenue Growth (%)"]
    ELSE run.company_data["Revenue Growth (%)"]

\* C17: in fetch_main_company_financials a prior-period revenue of zero
\* gives a Revenue Growth (%) of 0 and no division-by-zero fault, and fewer
\* than 2 income periods give a Revenue Growth (%) of 0.
C17_GrowthZeroOnZeroPriorRevenue ==
    (run.pc # "idle" /\ run.pc # "valid") =>
        /\ run.built # "ZeroDivisionError"
        /\ (run.built = "dict"
              /\ run.periods \in {"prior revenue 0", "fewer than 2"}) => Growth = <<0>>

\* The second half of C17, which the code keeps.
C17_GrowthZeroOnFewerPeriods ==
    (run.pc # "idle" /\ run.pc # "valid" /\ run.built = "dict"
        /\ run.periods = "fewer than 2") => Growth = <<0>>

\* C18: once its four responses are in, fetch_main_company_financials
\* returns None whenever the income, cashflow, ratios or quote response is
\* empty, and then no company_financials entry is written for the symbol, so
\* the next call finds none and computes again.
C18_EmptyDatasetGivesNoneUncached ==
    (run.pc # "idle" /\ run.pc # "valid" /\ run.built # "pending" /\ run.anyEmpty) =>
        /\ run.built = "None"
        /\ \A i \in 1..Len(store["company_financials"]) :
              store["company_financials"][i].key # run.symbol

\* A call has returned None on an empty response, with the responses that
\* were not empty cached.
C18_Witness ==
    /\ run.pc \in {"nodata", "api_nodata"}
    /\ run.built = "None" /\ run.anyEmpty
    /\ store["income_statement"] # <<>>
    /\ store["company_financials"] = <<>>

\* The record holds a value on each of the 8 metrics.
NoNull(record) == \A col \in Columns : record[col] # <<>>

\* C19: every record of the table handed to calculate_financial_score, the
\* peers' and the focal company's, has its 8 metrics non-null: a focal
\* record is never built with a null field, and one holding a null is a hard
\* failure, never scored.
C19_NoNullRecordIsScored ==
    (run.pc # "idle" /\ run.pc # "valid") =>
        /\ (run.built = "dict" /\ run.entry = "direct" /\ run.pc = "profile") =>
               NoNull(run.company_data)
        /\ run.scoredWith >= 0 =>
               /\ NoNull(run.company_data)
               /\ \A i \in 1..Len(run.peer_data) : NoNull(run.peer_data[i])

\* The part of C19 the code keeps: the peers' records handed to the scoring
\* engine hold no null.
C19_NoNullPeerIsScored ==
    (run.pc # "idle" /\ run.pc # "valid" /\ run.scoredWith >= 0) =>
        \A i \in 1..Len(run.peer_data) :
            \A col \in Columns \ {"Revenue Growth (%)", "Free Cash Flow (M)"} :
                run.peer_data[i][col] # <<>>

\* The two metrics a peer's record gets from the focal company.
Backfilled == {"Revenue Growth (%)", "Free Cash Flow (M)"}

\* C20: in every run that reaches scoring, every surviving peer record
\* carries the focal company's Revenue Growth (%) and Free Cash Flow (M), so
\* both columns of the scored table are degenerate and every row's sub-score
\* for them is 0.5.
C20_BackfilledColumnsAreHalf ==
    (run.pc # "idle" /\ run.pc # "valid" /\ run.scoredWith >= 0) =>
        /\ run.result = "score"
        /\ Len(run.rows) = Len(run.peer_data) + 1
        /\ \A col \in Backfilled :
              /\ run.company_data[col] # <<>>
              /\ \A i \in 1..Len(run.peer_data) :
                    run.peer_data[i][col] = run.company_data[col]
              /\ \A r \in 1..Len(run.rows) : run.rows[r][col] = <<1, 2>>

\* Two peers were scored with a company whose growth is not 0, and on
\* another column the rows differ.
C20_Witness ==
    /\ run.pc = "returned"
    /\ run.result = "score"
    /\ run.scoredWith = 2
    /\ run.company_data["Revenue Growth (%)"] \notin {<<>>, <<0>>}
    /\ \E r \in 1..Len(run.rows) : \E col \in Columns : run.rows[r][col] = <<0, 2>>

\* The stages of an analysis, in the order of the control flow.
Stages == <<"validate", "company", "peers", "peer_metrics", "backfill", "score">>
\* steps goes through stages of the control flow in their order.
InOrder(steps) ==
    \E at \in [1..Len(steps) -> 1..Len(Stages)] :
        /\ \A i \in 1..Len(steps) : Stages[at[i]] = steps[i]
        /\ \A i \in 1..(Len(steps) - 1) : at[i] < at[i + 1]

\* C22: in every analysis request, through the endpoint or through
\* run_financial_analysis, the steps come in the order validate, fetch the
\* focal company's metrics, resolve peers, fetch the peers' metrics,
\* backfill, score; and for a symbol the validator rejects no profile,
\* income, cashflow, ratios or quote fetch is ever made.
C22_StepsInOrderAndNoFetchWhenRejected ==
    (run.pc # "idle" /\ run.pc # "valid") =>
        /\ InOrder(run.steps)
        /\ run.valid = "false" => run.fetches = {}

\* The part of C22 the code keeps: what C22 says of run_financial_analysis
\* called on its own.
C22_DirectRunInOrder ==
    (run.pc # "idle" /\ run.pc # "valid" /\ run.entry = "direct") =>
        /\ InOrder(run.steps)
        /\ run.valid = "false" => run.fetches = {}
        /\ run.result = "score" => run.steps = Stages

\* The endpoint has answered 200 with the score and the company's figures.
Answered == run.pc = "responded" /\ run.status = 200

\* C23: within one endpoint request the focal company's record reported in
\* the response, the one the endpoint's own fetch_main_company_financials
\* call returned, is the record run_financial_analysis computed the reported
\* score from, whatever expires, fails to be written or interleaves between
\* the two calls.
C23_ReportedRecordIsScoredRecord ==
    Answered => run.financials = run.company_data

\* C23 where the clock stands still: the second call is served the entry the
\* first call wrote.
C23_SameRecordWhileCached ==
    (Answered /\ now = 0) => run.financials = run.company_data

InUnit(f) == f[2] > 0 /\ 0 <= f[1] /\ f[1] <= f[2]

\* C10: for every company record and non-empty peer list, each sub-score of
\* the company's row lies in [0, 1] and so does the returned score (here in
\* units of 0.0001).
C10_ScoresInUnitInterval ==
    (company_data # None /\ sector_data # <<>> /\ scored.state # "idle") =>
        /\ scored.state = "returned"
        /\ \A col \in Columns : InUnit(scored.sub[col])
        /\ 0 <= scored.score /\ scored.score <= 10000

\* C10, for the company records that hold a number in every column: the
\* sub-scores and the score lie in [0, 1].
C10_CompleteRecordsInUnitInterval ==
    (company_data \in InputRecords /\ sector_data # <<>> /\ scored.state # "idle") =>
        /\ scored.state = "returned"
        /\ \A col \in Columns : InUnit(scored.sub[col])
        /\ 0 <= scored.score /\ scored.score <= 10000

\* The table scored in the current state, and the columns of it in which all
\* rows hold the same number.
ScoredTable == all_data(company_data, sector_data)
SameValue(col) ==
    /\ cell(ScoredTable, 1, col) # <<>>
    /\ \A r \in 1..Len(ScoredTable) : cell(ScoredTable, r, col) = cell(ScoredTable, 1, col)

\* C11: in a column where all rows of the scored table share the same value,
\* every row's sub-score is exactly 0.5 (numerator 1, denominator 2: nothing
\* is divided by zero).
C11_DegenerateColumnIsHalf ==
    scored.state = "returned" =>
        \A col \in Columns :
            SameValue(col) =>
                \A r \in 1..Len(scored.rows) : scored.rows[r][col] = <<1, 2>>
\* Two peers and the company share a value on a positive and on a negative
\* column, and differ on another column.
C11_Witness ==
    /\ scored.state = "returned"
    /\ Len(sector_data) = 2
    /\ SameValue("ROE (%)")
    /\ SameValue("Debt-to-Equity")
    /\ ~SameValue("P/E Ratio")
    /\ scored.rows[1]["ROE (%)"] = <<1, 2>>
    /\ scored.rows[3]["Debt-to-Equity"] = <<1, 2>>

\* Every cell of the scored table holds a number.
AllNumbers ==
    \A r \in 1..Len(ScoredTable) : \A col \in Columns : cell(ScoredTable, r, col) # <<>>
\* The sub-score the company (the last row) is due on a column: its place
\* between the least and the greatest number in the column, from the other
\* end for Debt-to-Equity and P/E Ratio, 1/2 when the two are equal.  Where
\* the company holds no number and the others differ it is due nothing
\* (0 of 1).
DueSub(col) ==
    LET rows == {r \in 1..Len(ScoredTable) : cell(ScoredTable, r, col) # <<>>}
        vals == {cell(ScoredTable, r, col)[1] : r \in rows}
        lo == CHOOSE x \in vals : \A y \in vals : x <= y
        hi == CHOOSE x \in vals : \A y \in vals : x >= y
        v == cell(ScoredTable, Len(ScoredTable), col)
    IN  IF lo = hi THEN <<1, 2>>
        ELSE IF v = <<>> THEN <<0, 1>>
        ELSE IF col \in {"Debt-to-Equity", "P/E Ratio"} THEN <<hi - v[1], hi - lo>>
        ELSE <<v[1] - lo, hi - lo>>
\* The common denominator of the due sub-scores, and the due weighted sum in
\* units of 1/(100 * DueDen).
DueDen ==
    DueSub("Revenue Growth (%)")[2] * DueSub("Net Profit Margin (%)")[2]
    * DueSub("ROE (%)")[2] * DueSub("Debt-to-Equity")[2]
    * DueSub("Free Cash Flow (M)")[2] * DueSub("EPS")[2]
    * DueSub("P/E Ratio")[2] * DueSub("Current Ratio")[2]
DueTerm(col, w) == w * DueSub(col)[1] * (DueDen \div DueSub(col)[2])
DueSum ==
    DueTerm("Revenue Growth (%)", 20) + DueTerm("Net Profit Margin (%)", 15)
    + DueTerm("ROE (%)", 20) + DueTerm("Debt-to-Equity", 15)
    + DueTerm("Free Cash Flow (M)", 10) + DueTerm("EPS", 5)
    + DueTerm("P/E Ratio", 10) + DueTerm("Current Ratio", 5)
\* score (in units of 0.0001) is the due sum rounded to 4 decimals.
IsDueScore(score) ==
    LET d == score * DueDen - 100 * DueSum
    IN  2 * d <= DueDen /\ -2 * d <= DueDen
\* The company that beats its single peer on the six metrics of the peer's
\* own.
Scenario == company_data = ScenarioCompany /\ sector_data = <<ScenarioPeer>>

\* C12 as stated: the engine returns the weighted sum of the 8 sub-scores of
\* the last row, the company's, with the weights 0.20, 0.15, 0.20, 0.15, 0.10,
\* 0.05, 0.10, 0.05, higher better on six columns and lower better on two,
\* rounded to 4 decimals; it is 0.95 in the scenario.
C12_WeightedSumScenario95 ==
    scored.state = "returned" =>
        /\ IsDueScore(scored.score)
        /\ Scenario => scored.score = 9500

\* C12 amended: the engine returns that weighted sum of the last row, a
\* metric on which the company holds no number counting 0.5 when the other
\* rows agree and nothing otherwise; it is 0.85 in the scenario.
C12_WeightedSumOfLastRow ==
    scored.state = "returned" =>
        /\ IsDueScore(scored.score)
        /\ Scenario => scored.score = 8500
\* The scenario has been scored.
C12_Witness ==
    /\ scored.state = "returned"
    /\ Scenario
    /\ scored.sub["Revenue Growth (%)"] = <<1, 2>>
    /\ scored.sub["Debt-to-Equity"] = <<5, 5>>

\* C21: calculate_financial_score raises, and returns no number, whenever
\* the peers are empty, the company is null, or the company lacks one of the
\* 8 metric fields.
C21_FailsOnEmptyNullOrIncomplete ==
    (/\ scored.state # "idle"
     /\ \/ sector_data = <<>>
        \/ company_data = None
        \/ Columns \ DOMAIN company_data # {}) => scored.state = "raised"

\* The part of C21 the code keeps: no peers or no company is an error.
C21_FailsOnEmptyOrNull ==
    (scored.state # "idle" /\ (sector_data = <<>> \/ company_data = None)) =>
        scored.state = "raised"

====
